---- MODULE Spec2Model ----
(***************************************************************************)
(* The earth-sun orbit simulation of src/index.js: the physics module      *)
(* (state, force model, sub-stepped integrator, setters), the part of the  *)
(* graphics module that feeds back into it (mesh position, sun radius,     *)
(* collision check) and the simulation/controls handlers that drive both.  *)
(*                                                                         *)
(* Numbers.  The source computes in IEEE doubles.  Here a JavaScript       *)
(* number is a tagged record: a finite value carried as an integer in      *)
(* model units, NaN, +Infinity or -Infinity.  The arithmetic operators     *)
(* follow IEEE for the special values (x/0, 0/0, Inf-Inf, 0*Inf, NaN       *)
(* propagation, NaN comparisons) and round a finite quotient toward zero.  *)
(* Units are chosen so that the source's constants are small integers:     *)
(* length unit = earthSunDistanceMeters / 30, angle unit = 1/5 radian,     *)
(* time unit = the time the earth takes to move one angle unit, mass unit  *)
(* = massOfTheSunKg; lengths on screen are carried in 1/24 screen unit.    *)
(* One sub-step of the model is therefore a coarse step (the regime of a   *)
(* very large simulationSpeed), and the model runs SubSteps of them per    *)
(* tick where the source runs 1000.                                        *)
(***************************************************************************)
EXTENDS Integers, Sequences, FiniteSets, TLC

VARIABLES state, started, loaded, earth, sunRadius,
          orbitVertices, previousEarthPositionWithOrbitPoint, frameRequested,
          lastOp, lastArg, subStepsExecuted, pausedAtEntry, deltaTs,
          orbitVertexShifted, afterPausedRestart

vars == <<state, started, loaded, earth, sunRadius,
          orbitVertices, previousEarthPositionWithOrbitPoint, frameRequested,
          lastOp, lastArg, subStepsExecuted, pausedAtEntry, deltaTs,
          orbitVertexShifted, afterPausedRestart>>

\* What the graphics module holds, and the pending animation frame request
\* of the simulation module.
graphicsVars == <<started, loaded, earth, sunRadius,
                  orbitVertices, previousEarthPositionWithOrbitPoint,
                  frameRequested>>

---------------------------------------------------------------------------
(* Bounds of the model *)

\* Finite values of distance and angle (values and speeds) are explored up
\* to this magnitude; a tick that leaves the range is not taken.
MaxAbs == 50

\* Number of sub-steps the model runs per tick (the source runs 1000).
SubSteps == 2

\* Number of ticks over which two trajectories are compared.
TrajectoryTicks == 2

\* Maximum number of orbit vertices to draw (the source keeps 1000).
maxNumberOfOrbitVertices == 3

---------------------------------------------------------------------------
(* JavaScript numbers *)

Num(n) == [k |-> "num", v |-> n]
NaN == [k |-> "nan", v |-> 0]
PInf == [k |-> "inf", v |-> 1]
NInf == [k |-> "inf", v |-> -1]
Undefined == [k |-> "undefined", v |-> 0]

IsNum(x) == x.k = "num"
IsNaN(x) == x.k = "nan"
IsInf(x) == x.k = "inf"

Abs(n) == IF n < 0 THEN -n ELSE n
Sign(n) == IF n > 0 THEN 1 ELSE IF n < 0 THEN -1 ELSE 0
Inf(sign) == IF sign > 0 THEN PInf ELSE NInf

\* The finite quotient, rounded toward zero.
TruncDiv(a, b) ==
  IF Sign(a) * Sign(b) >= 0 THEN Abs(a) \div Abs(b) ELSE -(Abs(a) \div Abs(b))

\* The remainder with the sign of the dividend (JavaScript %).
TruncRem(a, b) == a - b * TruncDiv(a, b)

FNeg(a) == IF IsNum(a) THEN Num(-a.v) ELSE IF IsInf(a) THEN Inf(-a.v) ELSE NaN

FAdd(a, b) ==
  IF IsNaN(a) \/ IsNaN(b) THEN NaN
  ELSE IF IsInf(a) /\ IsInf(b) THEN (IF a.v = b.v THEN a ELSE NaN)
  ELSE IF IsInf(a) THEN a
  ELSE IF IsInf(b) THEN b
  ELSE Num(a.v + b.v)

FSub(a, b) == FAdd(a, FNeg(b))

FMul(a, b) ==
  IF IsNaN(a) \/ IsNaN(b) THEN NaN
  ELSE IF IsInf(a) \/ IsInf(b)
       THEN (IF Sign(a.v) * Sign(b.v) = 0 THEN NaN ELSE Inf(Sign(a.v) * Sign(b.v)))
  ELSE Num(a.v * b.v)

\* A zero divisor is always +0 here: the divisors are distance.value, which
\* becomes zero only as a sum of opposite values, and its square.
FDiv(a, b) ==
  IF IsNaN(a) \/ IsNaN(b) THEN NaN
  ELSE IF IsInf(a) /\ IsInf(b) THEN NaN
  ELSE IF IsInf(a) THEN Inf(IF b.v < 0 THEN -a.v ELSE a.v)
  ELSE IF IsInf(b) THEN Num(0)
  ELSE IF b.v = 0 THEN (IF a.v = 0 THEN NaN ELSE Inf(Sign(a.v)))
  ELSE Num(TruncDiv(a.v, b.v))

FMod(a, b) ==
  IF IsNaN(a) \/ IsNaN(b) \/ IsInf(a) THEN NaN
  ELSE IF IsInf(b) THEN a
  ELSE IF b.v = 0 THEN NaN
  ELSE Num(TruncRem(a.v, b.v))

FPow2(a) == FMul(a, a)

FGt(a, b) ==
  IF IsNaN(a) \/ IsNaN(b) THEN FALSE
  ELSE IF IsInf(a) THEN (a.v > 0 /\ b # PInf)
  ELSE IF IsInf(b) THEN b.v < 0
  ELSE a.v > b.v

FLe(a, b) ==
  IF IsNaN(a) \/ IsNaN(b) THEN FALSE
  ELSE IF IsInf(a) THEN (a.v < 0 \/ b = PInf)
  ELSE IF IsInf(b) THEN b.v > 0
  ELSE a.v <= b.v

FAbs(a) == IF IsNum(a) THEN Num(Abs(a.v)) ELSE IF IsInf(a) THEN PInf ELSE NaN

---------------------------------------------------------------------------
(* physics: constants *)

\* Angle units per radian: angles and angular speeds are carried in fifths
\* of a radian, so a squared angular speed is divided by angleScale^2.
angleScale == 5

\* gravitationalConstant * massOfTheSunKg balances the centrifugal term at
\* the initial conditions, as the source's constants do (to 2 parts in 10^5).
gravitationalConstant == 900
earthSunDistanceMeters == 30
earthAngularVelocityMetersPerSecond == 1
massOfTheSunKg == 1

screenUnitsInOneEarthSunDistance == 10
scaleFactor == earthSunDistanceMeters \div screenUnitsInOneEarthSunDistance

\* frameRate = 1 / 60, kept as its denominator.
frameRateDenominator == 60

\* Screen lengths are carried in 1/screenScale of a screen unit.
screenScale == 24

\* 2 * Math.PI and Math.PI / 6 in angle units, rounded.
TwoPi == 31
initialAngle == 3

\* Amount of time passed in a second in the simulation, in model time
\* units: with two sub-steps per tick it gives deltaT = 1.
defaultSimulationSpeed == 120

initialConditions ==
  [distance |-> [value |-> Num(earthSunDistanceMeters), speed |-> Num(0)],
   angle |-> [value |-> Num(initialAngle),
              speed |-> Num(earthAngularVelocityMetersPerSecond)]]

\* The state object as the physics module creates it.
placeholderState ==
  [distance |-> [value |-> Num(0), speed |-> Num(0)],
   angle |-> [value |-> Num(0), speed |-> Num(0)],
   massOfTheSunKg |-> massOfTheSunKg,
   paused |-> FALSE,
   simulationSpeed |-> defaultSimulationSpeed]

---------------------------------------------------------------------------
(* physics: force model and integrator, as functions of the state record *)

\* The centrifugal term of the distance acceleration.
centrifugalAcceleration(s) ==
  FDiv(FMul(s.distance.value, FPow2(s.angle.speed)), Num(angleScale * angleScale))

\* The distance acceleration under the reference mass of the sun, whatever
\* the mass in the state.
calculateDistanceAccelerationReferenceMass(s) ==
  FSub(centrifugalAcceleration(s),
       FDiv(Num(gravitationalConstant * massOfTheSunKg), FPow2(s.distance.value)))

calculateDistanceAcceleration(s) ==
  FSub(FDiv(FMul(s.distance.value, FPow2(s.angle.speed)),
            Num(angleScale * angleScale)),
       FDiv(Num(gravitationalConstant * s.massOfTheSunKg),
            FPow2(s.distance.value)))

calculateAngleAcceleration(s) ==
  FDiv(FMul(FMul(Num(-2), s.distance.speed), s.angle.speed), s.distance.value)

newValue(currentValue, deltaT, derivative) ==
  FAdd(currentValue, FMul(deltaT, derivative))

\* A reset that leaves the angular speed as it is.
resetStateKeepingAngleSpeed(s) ==
  [s EXCEPT !.distance.value = initialConditions.distance.value,
            !.distance.speed = initialConditions.distance.speed,
            !.angle.value = initialConditions.angle.value]

\* A reset that also restores the mass of the sun.
resetStateAndMass(s) ==
  [s EXCEPT !.distance.value = initialConditions.distance.value,
            !.distance.speed = initialConditions.distance.speed,
            !.angle.value = initialConditions.angle.value,
            !.angle.speed = initialConditions.angle.speed,
            !.massOfTheSunKg = massOfTheSunKg]

resetStateToInitialConditions(s) ==
  [s EXCEPT !.distance.value = initialConditions.distance.value,
            !.distance.speed = initialConditions.distance.speed,
            !.angle.value = initialConditions.angle.value,
            !.angle.speed = initialConditions.angle.speed]

scaledDistance(s) ==
  FDiv(FMul(s.distance.value, Num(screenScale)), Num(scaleFactor))

\* The length of the time increment before the next calculation.
deltaTOf(s) ==
  Num(TruncDiv(TruncDiv(s.simulationSpeed, frameRateDenominator), SubSteps))

normalizeAngle(a) == IF FGt(a, Num(TwoPi)) THEN FMod(a, Num(TwoPi)) ELSE a

\* One sub-step: the distance is updated first, and the angle acceleration
\* is computed from the state that already holds the new distance.
calculateNewPosition(s) ==
  LET deltaT == deltaTOf(s)
      distanceAcceleration == calculateDistanceAcceleration(s)
      s1 == [s EXCEPT !.distance.speed =
                         newValue(s.distance.speed, deltaT, distanceAcceleration)]
      s2 == [s1 EXCEPT !.distance.value =
                         newValue(s1.distance.value, deltaT, s1.distance.speed)]
      angleAcceleration == calculateAngleAcceleration(s2)
      s3 == [s2 EXCEPT !.angle.speed =
                         newValue(s2.angle.speed, deltaT, angleAcceleration)]
      s4 == [s3 EXCEPT !.angle.value =
                         newValue(s3.angle.value, deltaT, s3.angle.speed)]
  IN [s4 EXCEPT !.angle.value = normalizeAngle(s4.angle.value)]

\* A finite value within the explored range, or a special value.
FInRange(x) == IsNum(x) => Abs(x.v) <= MaxAbs

InRange(s) ==
  /\ FInRange(s.distance.value) /\ FInRange(s.distance.speed)
  /\ FInRange(s.angle.value) /\ FInRange(s.angle.speed)

\* The loop of updatePosition: the sub-steps i, i + 1, ... of a tick, from s,
\* after the sub-steps that used the time increments dts.  The result holds
\* the final state, the number of sub-steps executed and the time increment
\* each of them computed; ok is FALSE when a sub-step left the explored
\* range (the result is then not used).
RECURSIVE subSteps(_, _, _)
subSteps(s, i, dts) ==
  IF i >= SubSteps THEN [ok |-> TRUE, s |-> s, n |-> Len(dts), dts |-> dts]
  ELSE LET t == calculateNewPosition(s)
       IN IF InRange(t) THEN subSteps(t, i + 1, Append(dts, deltaTOf(s)))
          ELSE [ok |-> FALSE, s |-> s, n |-> Len(dts), dts |-> dts]

\* The state after the first n sub-steps of the loop from s (as long as they
\* stay in the explored range).
RECURSIVE calculateNewPositions(_, _)
calculateNewPositions(s, n) ==
  IF n = 0 THEN [ok |-> TRUE, s |-> s]
  ELSE LET r == calculateNewPositions(s, n - 1)
           t == calculateNewPosition(r.s)
       IN IF r.ok /\ InRange(t) THEN [ok |-> TRUE, s |-> t]
          ELSE [ok |-> FALSE, s |-> r.s]

\* updatePosition without its test of state.paused.
updatePositionIgnoringPause(s) == subSteps(s, 0, <<>>)

\* updatePosition with a loop that starts at i = 1.
updatePositionOneSubStepShort(s) ==
  IF s.paused THEN [ok |-> TRUE, s |-> s, n |-> 0, dts |-> <<>>]
  ELSE subSteps(s, 1, <<>>)

updatePosition(s) ==
  IF s.paused THEN [ok |-> TRUE, s |-> s, n |-> 0, dts |-> <<>>]
  ELSE subSteps(s, 0, <<>>)

\* updateSunMass with a multiplier of 0 replaced by the default of 1.
updateSunMassDefaultingZero(s, sunMassMultiplier) ==
  [s EXCEPT !.massOfTheSunKg =
     massOfTheSunKg * (IF sunMassMultiplier = 0 THEN 1 ELSE sunMassMultiplier)]

updateSunMass(s, sunMassMultiplier) ==
  [s EXCEPT !.massOfTheSunKg = massOfTheSunKg * sunMassMultiplier]

updateSimulationSpeed(s, simulationSpeed) ==
  [s EXCEPT !.simulationSpeed = simulationSpeed]

---------------------------------------------------------------------------
(* graphics: the mesh state the collision check reads *)

\* Radius of the earth sphere (0.25 screen unit) and the denominator of
\* earthRadiusCollisionFraction (0.5).
earthRadius == screenScale \div 4
earthRadiusCollisionFractionDenominator == 2

\* A sphere whose geometry keeps the radius of 1 screen unit.
sphereRadiusOfOne(radius) == Num(screenScale)

\* Radius of a sphere built with the given radius in screen units.
sphereRadius(radius) == Num(screenScale * radius)

\* The earth mesh position is kept in polar form, as drawScene receives it:
\* getEarthPosition maps it to (cos(angle) * distance, 0, -sin(angle) * distance).
getEarthPosition(earthDistance, earthAngle) ==
  [distance |-> earthDistance, angle |-> earthAngle]

\* drawEarth that leaves the mesh where it is.
drawEarthNever(earthMesh, earthPosition) == earthMesh

\* The position of the earth mesh after drawEarth(earthPosition).
drawEarth(earthMesh, earthPosition) == earthPosition

\* sun.position is the origin, so sunCenter.distanceTo(earthCenter) is the
\* norm of the earth position: |distance| for a finite angle, NaN when the
\* angle is NaN or infinite (its cosine is NaN).
sunEarthDistance(e) == IF IsNum(e.angle) THEN FAbs(e.distance) ELSE NaN

\* Sun-earth distance below which a collision will be initiated.
sunEarthCollisionIntersection(radius, earthRadiusArg) ==
  FAdd(radius, FDiv(earthRadiusArg, Num(earthRadiusCollisionFractionDenominator)))

isEarthCollidedWithTheSun(e, radius) ==
  FLe(sunEarthDistance(e), sunEarthCollisionIntersection(radius, Num(earthRadius)))

\* The value of previousEarthPositionWithOrbitPoint before the first frame
\* (null).
NoPosition == [distance |-> Undefined, angle |-> Undefined]

\* Minimum distance between consecutive orbit vertices: 0.1, which drawOrbit
\* compares with a squared distance, in squares of 1/screenScale screen unit
\* (57.6, and a whole number exceeds it when it exceeds 57).
minimumOrbitVertexDistance == (screenScale * screenScale) \div 10

\* Hundredths of the cosine of k angle units, k = 0 .. TwoPi - 1.
cosineTable ==
  <<100, 98, 92, 83, 70, 54, 36, 17, -3, -23, -42, -59, -74, -86, -94, -99,
    -100, -97, -90, -79, -65, -49, -31, -11, 9, 28, 47, 63, 78, 89, 96>>

cosine(angle) == cosineTable[(Abs(angle) % TwoPi) + 1]

\* Vector3.distanceToSquared of two earth positions, by the law of cosines
\* on their polar forms.  A position with a NaN or infinite angle, or a NaN
\* distance, has NaN coordinates; an infinite distance with a finite angle
\* gives infinite coordinates.
distanceToSquared(p, q) ==
  IF ~IsNum(p.angle) \/ ~IsNum(q.angle) \/ IsNaN(p.distance) \/ IsNaN(q.distance)
  THEN NaN
  ELSE IF IsInf(p.distance) \/ IsInf(q.distance)
  THEN (IF IsInf(p.distance) /\ IsInf(q.distance) THEN NaN ELSE PInf)
  ELSE Num(p.distance.v * p.distance.v + q.distance.v * q.distance.v
           - TruncDiv(2 * p.distance.v * q.distance.v
                        * cosine(p.angle.v - q.angle.v), 100))

\* drawOrbit that never removes a vertex.
drawOrbitWithoutShift(vertices, previous, earthPosition) ==
  IF previous = NoPosition
  THEN [vertices |-> vertices, previous |-> earthPosition, shifted |-> FALSE]
  ELSE IF FGt(distanceToSquared(earthPosition, previous),
              Num(minimumOrbitVertexDistance))
  THEN [vertices |-> Append(vertices, earthPosition), previous |-> earthPosition,
        shifted |-> FALSE]
  ELSE [vertices |-> vertices, previous |-> previous, shifted |-> FALSE]

\* The vertex list of the orbit line and the last position with an orbit
\* point after drawOrbit(earthPosition); shifted tells whether vertices.shift()
\* was executed.
drawOrbit(vertices, previous, earthPosition) ==
  IF previous = NoPosition
  THEN [vertices |-> vertices, previous |-> earthPosition, shifted |-> FALSE]
  ELSE IF FGt(distanceToSquared(earthPosition, previous),
              Num(minimumOrbitVertexDistance))
  THEN IF Len(Append(vertices, earthPosition)) = maxNumberOfOrbitVertices
       THEN [vertices |-> Tail(Append(vertices, earthPosition)),
             previous |-> earthPosition, shifted |-> TRUE]
       ELSE [vertices |-> Append(vertices, earthPosition),
             previous |-> earthPosition, shifted |-> FALSE]
  ELSE [vertices |-> vertices, previous |-> previous, shifted |-> FALSE]

\* drawScene without the pause on collision.
pauseOnCollisionNever(s, e, radius) == s

\* drawScene with paused following the collision check in both directions.
pauseWhileCollided(s, e, radius) ==
  [s EXCEPT !.paused = isEarthCollidedWithTheSun(e, radius)]

\* The state after drawScene: a collision pauses the simulation.
pauseOnCollision(s, e, radius) ==
  IF isEarthCollidedWithTheSun(e, radius) THEN [s EXCEPT !.paused = TRUE] ELSE s

---------------------------------------------------------------------------
(* controls: the values the user interface offers *)

defaultSunMassMultiplierValue == 1

\* Values of the 'Mass of the Sun' slider (range 0.1 to 3).
SunMassMultipliers == {1, 2, 3}

\* Values of the 'Speed' control.
fastSimulationSpeed == 240
SimulationSpeeds == {defaultSimulationSpeed, fastSimulationSpeed}

\* Arguments a caller of the physics module can pass to its setters.
ApiSunMassMultipliers == {-1, 0, 1}
ApiSimulationSpeeds == {0, 120}

---------------------------------------------------------------------------
(* simulation: the frame loop *)

\* animate that asks for the next frame only inside its isLoaded() branch.
requestAnimationFrameWhenLoaded(isLoaded) == isLoaded

\* Whether a call of animate that finds isLoaded() as given leaves a request
\* for the next animation frame: requestAnimationFrame(animate) is its last
\* statement, outside the isLoaded() branch.
requestAnimationFrame(isLoaded) == TRUE

---------------------------------------------------------------------------
(* The program *)

Init ==
  /\ state = placeholderState
  /\ started = FALSE
  /\ loaded = FALSE
  /\ earth = [distance |-> Undefined, angle |-> Undefined]
  /\ sunRadius = Undefined
  /\ orbitVertices = <<>>
  /\ previousEarthPositionWithOrbitPoint = NoPosition
  /\ frameRequested = FALSE
  /\ lastOp = "init"
  /\ lastArg = 0
  /\ subStepsExecuted = 0
  /\ pausedAtEntry = FALSE
  /\ afterPausedRestart = FALSE
  /\ deltaTs = <<>>
  /\ orbitVertexShifted = FALSE

\* simulation.start(): graphics.init(), controls.init(), the reset, and the
\* first animate() call, which finds the assets not loaded.
start ==
  /\ ~started
  /\ started' = TRUE
  /\ loaded' = FALSE
  /\ earth' = getEarthPosition(Num(0), Num(0))
  /\ sunRadius' = sphereRadius(1)
  /\ orbitVertices' = <<>>
  /\ UNCHANGED previousEarthPositionWithOrbitPoint
  /\ state' = resetStateToInitialConditions(state)
  /\ frameRequested' = requestAnimationFrame(FALSE)
  /\ lastOp' = "start"
  /\ lastArg' = 0
  /\ subStepsExecuted' = 0
  /\ deltaTs' = <<>>
  /\ orbitVertexShifted' = FALSE
  /\ pausedAtEntry' = state.paused
  /\ afterPausedRestart' = (lastOp = "onClickRestart" /\ pausedAtEntry)

\* loadingManager.onLoad
onLoad ==
  /\ started /\ ~loaded
  /\ loaded' = TRUE
  /\ lastOp' = "onLoad"
  /\ lastArg' = 0
  /\ subStepsExecuted' = 0
  /\ deltaTs' = <<>>
  /\ orbitVertexShifted' = FALSE
  /\ pausedAtEntry' = state.paused
  /\ afterPausedRestart' = (lastOp = "onClickRestart" /\ pausedAtEntry)
  /\ UNCHANGED <<state, started, earth, sunRadius,
                 orbitVertices, previousEarthPositionWithOrbitPoint,
                 frameRequested>>

\* One animation frame: updatePosition, then drawScene (drawEarth, drawOrbit
\* and the collision check); nothing while the assets are not loaded.  The
\* frame runs on a pending request and leaves the next one.
animate ==
  /\ started /\ frameRequested
  /\ frameRequested' = requestAnimationFrame(loaded)
  /\ IF loaded
     THEN LET r == updatePosition(state)
              e == getEarthPosition(scaledDistance(r.s), r.s.angle.value)
              \* drawOrbit receives earthPosition, whose coordinates drawEarth
              \* has just copied to the mesh.
              o == drawOrbit(orbitVertices, previousEarthPositionWithOrbitPoint,
                             earth')
          IN /\ r.ok
             /\ earth' = drawEarth(earth, e)
             /\ orbitVertices' = o.vertices
             /\ previousEarthPositionWithOrbitPoint' = o.previous
             /\ state' = pauseOnCollision(r.s, earth', sunRadius)
             /\ subStepsExecuted' = r.n
             /\ deltaTs' = r.dts
             /\ orbitVertexShifted' = o.shifted
     ELSE /\ UNCHANGED <<state, earth, orbitVertices,
                         previousEarthPositionWithOrbitPoint>>
          /\ subStepsExecuted' = 0
          /\ deltaTs' = <<>>
          /\ orbitVertexShifted' = FALSE
  /\ lastOp' = "animate"
  /\ lastArg' = 0
  /\ pausedAtEntry' = state.paused
  /\ afterPausedRestart' = (lastOp = "onClickRestart" /\ pausedAtEntry)
  /\ UNCHANGED <<started, loaded, sunRadius>>

onChangeSunMassMultiplier(sunMassMultiplier) ==
  /\ started
  /\ state' = updateSunMass(state, sunMassMultiplier)
  /\ sunRadius' = sphereRadius(sunMassMultiplier)
  /\ lastOp' = "onChangeSunMassMultiplier"
  /\ lastArg' = sunMassMultiplier
  /\ subStepsExecuted' = 0
  /\ deltaTs' = <<>>
  /\ orbitVertexShifted' = FALSE
  /\ pausedAtEntry' = state.paused
  /\ afterPausedRestart' = (lastOp = "onClickRestart" /\ pausedAtEntry)
  /\ UNCHANGED <<started, loaded, earth,
                 orbitVertices, previousEarthPositionWithOrbitPoint,
                 frameRequested>>

onChangeSimulationSpeed(simulationSpeed) ==
  /\ started
  /\ state' = updateSimulationSpeed(state, simulationSpeed)
  /\ lastOp' = "onChangeSimulationSpeed"
  /\ lastArg' = simulationSpeed
  /\ subStepsExecuted' = 0
  /\ deltaTs' = <<>>
  /\ orbitVertexShifted' = FALSE
  /\ pausedAtEntry' = state.paused
  /\ afterPausedRestart' = (lastOp = "onClickRestart" /\ pausedAtEntry)
  /\ UNCHANGED <<started, loaded, earth, sunRadius,
                 orbitVertices, previousEarthPositionWithOrbitPoint,
                 frameRequested>>

\* onClickRestart without the reset of the mass controller.
restartStateKeepingMass(s) ==
  [resetStateToInitialConditions(s) EXCEPT !.paused = FALSE]

\* The state after onClickRestart: the reset, the mass controller set back
\* to its default (setValue runs onChangeSunMassMultiplier), and un-pause.
restartState(s) ==
  [updateSunMass(resetStateToInitialConditions(s), defaultSunMassMultiplierValue)
     EXCEPT !.paused = FALSE]

\* clearScene replaces the orbit line by one with no vertex.
onClickRestart ==
  /\ started
  /\ state' = restartState(state)
  /\ sunRadius' = sphereRadius(defaultSunMassMultiplierValue)
  /\ lastOp' = "onClickRestart"
  /\ lastArg' = 0
  /\ subStepsExecuted' = 0
  /\ deltaTs' = <<>>
  /\ orbitVertexShifted' = FALSE
  /\ orbitVertices' = <<>>
  /\ pausedAtEntry' = state.paused
  /\ afterPausedRestart' = (lastOp = "onClickRestart" /\ pausedAtEntry)
  /\ UNCHANGED <<started, loaded, earth, previousEarthPositionWithOrbitPoint,
                 frameRequested>>

Next ==
  \/ start
  \/ onLoad
  \/ animate
  \/ \E m \in SunMassMultipliers : onChangeSunMassMultiplier(m)
  \/ \E v \in SimulationSpeeds : onChangeSimulationSpeed(v)
  \/ onClickRestart

Spec == Init /\ [][Next]_vars

---------------------------------------------------------------------------
(* The physics module on its own, driven through its exported functions   *)
(* and its exported state object by an arbitrary caller.                  *)

apiUpdatePosition ==
  LET r == updatePosition(state)
  IN /\ r.ok
     /\ state' = r.s
     /\ lastOp' = "updatePosition"
     /\ lastArg' = 0
     /\ subStepsExecuted' = r.n
     /\ deltaTs' = r.dts
     /\ orbitVertexShifted' = FALSE
     /\ pausedAtEntry' = state.paused
     /\ afterPausedRestart' = (lastOp = "onClickRestart" /\ pausedAtEntry)
     /\ UNCHANGED graphicsVars

apiResetStateToInitialConditions ==
  /\ state' = resetStateToInitialConditions(state)
  /\ lastOp' = "resetStateToInitialConditions"
  /\ lastArg' = 0
  /\ subStepsExecuted' = 0
  /\ deltaTs' = <<>>
  /\ orbitVertexShifted' = FALSE
  /\ pausedAtEntry' = state.paused
  /\ afterPausedRestart' = (lastOp = "onClickRestart" /\ pausedAtEntry)
  /\ UNCHANGED graphicsVars

apiUpdateSunMass(sunMassMultiplier) ==
  /\ state' = updateSunMass(state, sunMassMultiplier)
  /\ lastOp' = "updateSunMass"
  /\ lastArg' = sunMassMultiplier
  /\ subStepsExecuted' = 0
  /\ deltaTs' = <<>>
  /\ orbitVertexShifted' = FALSE
  /\ pausedAtEntry' = state.paused
  /\ afterPausedRestart' = (lastOp = "onClickRestart" /\ pausedAtEntry)
  /\ UNCHANGED graphicsVars

apiUpdateSimulationSpeed(simulationSpeed) ==
  /\ state' = updateSimulationSpeed(state, simulationSpeed)
  /\ lastOp' = "updateSimulationSpeed"
  /\ lastArg' = simulationSpeed
  /\ subStepsExecuted' = 0
  /\ deltaTs' = <<>>
  /\ orbitVertexShifted' = FALSE
  /\ pausedAtEntry' = state.paused
  /\ afterPausedRestart' = (lastOp = "onClickRestart" /\ pausedAtEntry)
  /\ UNCHANGED graphicsVars

\* A write to the exported state.paused.
apiSetPaused(paused) ==
  /\ state' = [state EXCEPT !.paused = paused]
  /\ lastOp' = "setPaused"
  /\ lastArg' = 0
  /\ subStepsExecuted' = 0
  /\ deltaTs' = <<>>
  /\ orbitVertexShifted' = FALSE
  /\ pausedAtEntry' = state.paused
  /\ afterPausedRestart' = (lastOp = "onClickRestart" /\ pausedAtEntry)
  /\ UNCHANGED graphicsVars

NextApi ==
  \/ apiUpdatePosition
  \/ apiResetStateToInitialConditions
  \/ \E m \in ApiSunMassMultipliers : apiUpdateSunMass(m)
  \/ \E v \in ApiSimulationSpeeds : apiUpdateSimulationSpeed(v)
  \/ \E b \in BOOLEAN : apiSetPaused(b)

SpecApi == Init /\ [][NextApi]_vars

---------------------------------------------------------------------------
(* The physics module driven by a caller that switches the mass of the sun *)
(* between zero and the largest multiplier of the mass control, at the    *)
(* default simulation speed.                                              *)

ZeroMassMultipliers == {0, 3}

NextZeroMass ==
  \/ apiUpdatePosition
  \/ apiResetStateToInitialConditions
  \/ \E m \in ZeroMassMultipliers : apiUpdateSunMass(m)

SpecZeroMass == Init /\ [][NextZeroMass]_vars

---------------------------------------------------------------------------
(* Properties *)

\* The state with distance and angle at the initial conditions and every
\* other field as in s.
WithInitialOrbit(s) ==
  [s EXCEPT !.distance = initialConditions.distance,
            !.angle = initialConditions.angle]

\* C1: a tick taken while paused leaves every field of the orbit state
\* unchanged: distance, angle (values and speeds), the mass of the sun,
\* simulationSpeed and paused.
C1_PausedTickChangesNothing ==
  [][(lastOp' \in {"updatePosition", "animate"} /\ state.paused)
     => state' = state]_vars

\* updatePosition has run on a paused state that ticks had moved away from
\* the initial conditions.
C1_Witness ==
  /\ lastOp = "updatePosition" /\ pausedAtEntry /\ state.paused
  /\ state.distance # initialConditions.distance
  /\ state.distance # placeholderState.distance

\* C3: a frame whose collision check holds after drawing ends paused, no
\* sub-step executes in a step taken from a paused state, and only restart
\* leaves the paused state.
C3_CollisionPausesUntilRestart ==
  [][/\ (lastOp' = "animate" /\ loaded
          /\ isEarthCollidedWithTheSun(earth', sunRadius')) => state'.paused
     /\ state.paused => subStepsExecuted' = 0
     /\ (state.paused /\ lastOp' # "onClickRestart") => state'.paused]_vars

\* A frame ran its sub-steps, drew the earth inside the collision distance
\* and ended paused.
C3_Witness ==
  /\ lastOp = "animate" /\ loaded /\ ~pausedAtEntry
  /\ subStepsExecuted = SubSteps
  /\ isEarthCollidedWithTheSun(earth, sunRadius)
  /\ state.paused

\* C4: restart ends un-paused, with distance and angle at the initial
\* conditions and the mass of the sun at the reference mass.
C4_RestartState ==
  lastOp = "onClickRestart" =>
    /\ state.paused = FALSE
    /\ state.distance = initialConditions.distance
    /\ state.angle = initialConditions.angle
    /\ state.massOfTheSunKg = massOfTheSunKg * defaultSunMassMultiplierValue

\* Restart was clicked in the Paused state, with the earth still drawn where
\* the last frame left it.
C4_Witness ==
  /\ lastOp = "onClickRestart" /\ pausedAtEntry
  /\ earth.distance # Num(0)
  /\ ~state.paused

\* C5: the reset restores distance and angle and leaves the mass of the sun,
\* simulationSpeed and paused as they are; the restart leaves simulationSpeed
\* as it is.
C5_ResetFrame ==
  [][/\ resetStateToInitialConditions(state) = WithInitialOrbit(state)
     /\ lastOp' = "start" => state' = WithInitialOrbit(state)
     /\ lastOp' = "onClickRestart" =>
          /\ state'.simulationSpeed = state.simulationSpeed
          /\ state'.distance = initialConditions.distance
          /\ state'.angle = initialConditions.angle]_vars

\* Restart ran with a changed simulation speed in force.
C5_Witness ==
  /\ lastOp = "onClickRestart"
  /\ state.simulationSpeed = fastSimulationSpeed
  /\ state.distance = initialConditions.distance

\* C2: after a completed tick the angle is a number in [0, 2 pi).
C2_AngleNormalized ==
  (lastOp = "animate" /\ subStepsExecuted > 0) =>
    /\ IsNum(state.angle.value)
    /\ 0 <= state.angle.value.v
    /\ state.angle.value.v < TwoPi

\* The orbit part of a state.
Orbit(s) == <<s.distance, s.angle>>

\* The state of a freshly started engine.
freshState == resetStateToInitialConditions(placeholderState)

\* The result of n ticks from s.
RECURSIVE ticks(_, _)
ticks(s, n) ==
  IF n = 0 THEN [ok |-> TRUE, s |-> s, n |-> 0, dts |-> <<>>]
  ELSE LET r == ticks(s, n - 1)
       IN IF r.ok THEN updatePosition(r.s) ELSE r

\* The two tick sequences give the same distance and angle after each of the
\* first TrajectoryTicks ticks (as far as both stay in the explored range).
SameTrajectory(s, t) ==
  \A n \in 0..TrajectoryTicks :
    LET a == ticks(s, n)
        b == ticks(t, n)
    IN (a.ok /\ b.ok) => Orbit(a.s) = Orbit(b.s)

\* C6 as stated: from every reachable state, the reset followed by a tick
\* sequence gives the trajectory of a freshly started engine.
C6_ResetReproducesFreshEngine ==
  started => SameTrajectory(resetStateToInitialConditions(state), freshState)

\* C6 amended: the reset followed by a tick sequence gives the trajectory of
\* a freshly started engine that has the same mass of the sun, simulation
\* speed and paused flag as the engine that was reset.
C6_ResetReproducesFreshEngineWithSameParameters ==
  started =>
    SameTrajectory(resetStateToInitialConditions(state),
                   [freshState EXCEPT !.massOfTheSunKg = state.massOfTheSunKg,
                                      !.simulationSpeed = state.simulationSpeed,
                                      !.paused = state.paused])

\* An engine that ticked away from the initial conditions under a changed
\* mass, and whose trajectory after a reset stays in the explored range and
\* leaves that of an engine with the default parameters.
C6_Witness ==
  /\ lastOp = "animate" /\ subStepsExecuted > 0 /\ ~state.paused
  /\ state.massOfTheSunKg # massOfTheSunKg
  /\ Orbit(state) # Orbit(freshState)
  /\ ticks(resetStateToInitialConditions(state), TrajectoryTicks).ok
  /\ ticks(freshState, TrajectoryTicks).ok
  /\ Orbit(ticks(resetStateToInitialConditions(state), TrajectoryTicks).s)
       # Orbit(ticks(freshState, TrajectoryTicks).s)

\* C7: a setter called with a negative mass multiplier or a simulation speed
\* that is not positive leaves the state as it is.
C7_InvalidConfigurationRejected ==
  [][(\/ lastOp' = "updateSunMass" /\ lastArg' < 0
      \/ lastOp' = "updateSimulationSpeed" /\ lastArg' <= 0)
     => state' = state]_vars

Finite(s) ==
  /\ IsNum(s.distance.value) /\ IsNum(s.distance.speed)
  /\ IsNum(s.angle.value) /\ IsNum(s.angle.speed)

\* C8: distance and angle never hold NaN or an infinity, and a sub-step that
\* starts with a distance that is not positive writes nothing to them.
C8_DegenerateDistanceGuarded ==
  started =>
    /\ Finite(state)
    /\ (loaded /\ ~state.paused /\ state.distance.value.v <= 0) =>
         Orbit(calculateNewPosition(state)) = Orbit(state)

\* C9: the distance is a positive number in every reachable state.
C9_DistancePositive ==
  IsNum(state.distance.value) /\ state.distance.value.v > 0

\* C10: updateSunMass with a multiplier m >= 0 sets the mass of the sun to
\* massOfTheSunKg * m and changes no other field of the state.
C10_UpdateSunMass ==
  [][(lastOp' = "updateSunMass" /\ lastArg' >= 0) =>
       state' = [state EXCEPT !.massOfTheSunKg = massOfTheSunKg * lastArg']]_vars

\* updateSunMass(0) ran on a paused engine away from the initial conditions.
C10_Witness ==
  /\ lastOp = "updateSunMass" /\ lastArg = 0
  /\ state.massOfTheSunKg = 0
  /\ state.paused
  /\ Orbit(state) # Orbit(freshState) /\ Orbit(state) # Orbit(placeholderState)

\* C11: a tick taken while not paused executes exactly SubSteps sub-steps
\* (the model's numberOfCalculationsPerFrame), and every one of them uses the
\* time increment of the simulationSpeed in force when the tick began, which
\* is the speed the last onChangeSimulationSpeed stored.
C11_TickSubSteps ==
  [][/\ (lastOp' = "animate" /\ loaded /\ ~state.paused) =>
          /\ subStepsExecuted' = SubSteps
          /\ deltaTs' = [i \in 1..SubSteps |-> deltaTOf(state)]
     /\ lastOp' = "onChangeSimulationSpeed" =>
          state'.simulationSpeed = lastArg']_vars

\* A tick ran all its sub-steps with the time increment of a simulation
\* speed that was changed since start.
C11_Witness ==
  /\ lastOp = "animate" /\ loaded /\ ~pausedAtEntry
  /\ subStepsExecuted = SubSteps
  /\ state.simulationSpeed = fastSimulationSpeed
  /\ deltaTs = [i \in 1..SubSteps |-> deltaTOf(state)]
  /\ deltaTOf(state) # deltaTOf(freshState)

\* C12: in a sub-step the angle acceleration is computed from the state as
\* it is at the start of the sub-step (the distance and its speed not yet
\* updated), and the new angle speed is the old one advanced by it.
C12_AccelerationsFromStepStart ==
  (started /\ loaded /\ ~state.paused /\ Finite(state)) =>
    calculateNewPosition(state).angle.speed =
      newValue(state.angle.speed, deltaTOf(state), calculateAngleAcceleration(state))

\* Number of consecutive sub-steps over which a run of the integrator is
\* followed.
TrajectorySubSteps == SubSteps * TrajectoryTicks

\* The distance and the distance speed before sub-step i of the run from s.
DistanceAt(s, i) == calculateNewPositions(s, i).s.distance.value.v
DistanceSpeedAt(s, i) == calculateNewPositions(s, i).s.distance.speed.v

\* Sub-step i of the run from s is executed with the mass of the sun at zero,
\* from finite values with a positive distance.
ZeroMassSubStep(s, i) ==
  /\ s.massOfTheSunKg = 0 /\ ~s.paused
  /\ calculateNewPositions(s, i).ok /\ calculateNewPositions(s, i + 1).ok
  /\ Finite(calculateNewPositions(s, i).s)
  /\ DistanceAt(s, i) > 0

ZeroMassSubSteps(s, i, k) == \A n \in i..(k - 1) : ZeroMassSubStep(s, n)

\* The distance leaves its value of sub-step i and is back at it, or beyond
\* it, at sub-step k.
DistanceReturns(s, i, k) ==
  \E j \in (i + 1)..(k - 1) :
    \/ DistanceAt(s, j) < DistanceAt(s, i) /\ DistanceAt(s, k) >= DistanceAt(s, i)
    \/ DistanceAt(s, j) > DistanceAt(s, i) /\ DistanceAt(s, k) <= DistanceAt(s, i)

C14_OrbitVertices ==
  [][/\ Len(orbitVertices') <= maxNumberOfOrbitVertices
     /\ (lastOp' = "animate" /\ orbitVertices' # orbitVertices) =>
          /\ previousEarthPositionWithOrbitPoint # NoPosition
          /\ FGt(distanceToSquared(earth', previousEarthPositionWithOrbitPoint),
                 Num((screenScale * screenScale) \div 100))
          /\ orbitVertices' =
               IF Len(orbitVertices) + 1 = maxNumberOfOrbitVertices
               THEN Tail(Append(orbitVertices, earth'))
               ELSE Append(orbitVertices, earth')
     /\ (lastOp' = "animate" /\ orbitVertices' = orbitVertices) =>
          ~orbitVertexShifted']_vars

\* A frame appended the position it drew to a full vertex list and removed
\* the oldest vertex.
C14_Witness ==
  /\ lastOp = "animate" /\ orbitVertexShifted
  /\ Len(orbitVertices) = maxNumberOfOrbitVertices - 1
  /\ orbitVertices[Len(orbitVertices)] = earth
  /\ previousEarthPositionWithOrbitPoint = earth

\* C15: paused becomes true only in a frame whose collision check holds,
\* stays true through frames, mass changes and speed changes, whether or
\* not the collision check still holds, and becomes false only by restart.
C15_PausedLatched ==
  [][/\ (~state.paused /\ state'.paused) =>
          (lastOp' = "animate" /\ isEarthCollidedWithTheSun(earth', sunRadius'))
     /\ (state.paused /\ lastOp' \in {"animate", "onChangeSunMassMultiplier",
                                      "onChangeSimulationSpeed"}) =>
          state'.paused
     /\ (state.paused /\ ~state'.paused) => lastOp' = "onClickRestart"]_vars

\* A frame ran in the paused state after the sun was shrunk: the collision
\* check no longer holds and the simulation is still paused.
C15_Witness ==
  /\ lastOp = "animate" /\ loaded /\ pausedAtEntry /\ state.paused
  /\ ~isEarthCollidedWithTheSun(earth, sunRadius)
  /\ sunRadius = sphereRadius(1)

\* C16: the frame that follows a restart from the paused state runs a tick
\* from the initial conditions under the reference mass, as a freshly
\* started engine at the same simulation speed does, draws the earth where
\* that tick left it, evaluates the collision check on that position and on
\* the sun radius of multiplier 1, and does not pause.
C16_FrameAfterRestart ==
  [][(lastOp = "onClickRestart" /\ pausedAtEntry /\ lastOp' = "animate" /\ loaded) =>
       /\ subStepsExecuted' = SubSteps
       /\ Orbit(state') =
            Orbit(updatePosition([freshState EXCEPT
                    !.simulationSpeed = state.simulationSpeed]).s)
       /\ earth' = getEarthPosition(scaledDistance(state'), state'.angle.value)
       /\ sunRadius' = sphereRadius(defaultSunMassMultiplierValue)
       /\ ~isEarthCollidedWithTheSun(earth', sunRadius')
       /\ ~state'.paused]_vars

\* The frame after a restart from the paused state ran its tick and left the
\* simulation running; the earth was drawn away from the initial conditions.
C16_Witness ==
  /\ lastOp = "animate" /\ afterPausedRestart /\ loaded
  /\ subStepsExecuted = SubSteps
  /\ ~state.paused
  /\ state.angle.value # initialConditions.angle.value
  /\ earth = getEarthPosition(scaledDistance(state), state.angle.value)

\* C17: once the scene is built, the sun radius the collision check reads
\* is the current mass multiplier: the mass of the sun in the physics state
\* is the reference mass times the radius of the sun sphere in screen units.
C17_SunRadiusFollowsMass ==
  started =>
    /\ IsNum(sunRadius)
    /\ state.massOfTheSunKg * screenScale = massOfTheSunKg * sunRadius.v

\* A frame ran its tick and its collision check with the mass control at 3.
C17_Witness ==
  /\ lastOp = "animate" /\ loaded /\ subStepsExecuted = SubSteps
  /\ state.massOfTheSunKg = 3 * massOfTheSunKg
  /\ sunRadius = Num(3 * screenScale)

\* C18: no sub-step executes before start has reset the placeholder state
\* or on the placeholder values; start ends with distance and angle at the
\* initial conditions and no sub-step executed; a frame that finds the
\* assets not loaded changes neither the state nor the scene; and from start
\* on a request for the next animation frame is always pending.
C18_NoTickOnPlaceholder ==
  [][/\ subStepsExecuted' > 0 =>
          /\ started /\ loaded
          /\ Orbit(state) # Orbit(placeholderState)
     /\ lastOp' = "start" =>
          /\ Orbit(state') = <<initialConditions.distance, initialConditions.angle>>
          /\ subStepsExecuted' = 0
     /\ (lastOp' = "animate" /\ ~loaded) =>
          /\ subStepsExecuted' = 0
          /\ state' = state /\ earth' = earth
          /\ orbitVertices' = orbitVertices
          /\ previousEarthPositionWithOrbitPoint' = previousEarthPositionWithOrbitPoint
     /\ started' => frameRequested']_vars

\* A frame ran before the assets were loaded, on the state start had reset,
\* and left the request for the next frame.
C18_Witness ==
  /\ lastOp = "animate" /\ started /\ ~loaded
  /\ subStepsExecuted = 0
  /\ Orbit(state) = <<initialConditions.distance, initialConditions.angle>>
  /\ previousEarthPositionWithOrbitPoint = NoPosition
  /\ frameRequested

====
